---- MODULE Spec2Model ----
(***************************************************************************)
(* Weighted low rank approximation (wlra) and its Poisson outer loop       *)
(* (pois_lra), src/wlra/wlra.py.                                           *)
(*                                                                         *)
(* Floating point values are modelled as rationals <<num, den>> in lowest  *)
(* terms with den > 0, of finite precision (see Prec); <<0, 0>> is NaN.    *)
(* Matrices have the two rows of Rows and the columns of Cols.             *)
(***************************************************************************)
EXTENDS Integers, Sequences, FiniteSets, TLC

\* ---------------------------------------------------------------- bounds
MaxX == 2           \* largest entry of an input matrix
MaxW == 2           \* largest entry of an input weight matrix
MaxIters == 2       \* largest max_iters
MaxOuterIters == 2  \* largest max_outer_iters

Rows == {1, 2}
Cols == {1}
Idx == Rows \X Cols

\* ------------------------------------------------------------ arithmetic
Abs(n) == IF n < 0 THEN -n ELSE n

RECURSIVE GCD(_, _)
GCD(a, b) == IF b = 0 THEN a ELSE GCD(b, a % b)

NaN == <<0, 0>>
IsNaN(a) == a[2] = 0

\* A float holds a rational whose denominator is at most Prec exactly; any
\* other result is rounded to the nearest multiple of 1/Prec.
Prec == 256

Rat(n, d) ==
  IF d = 0 THEN NaN
  ELSE LET g == GCD(Abs(n), Abs(d))
           s == IF d < 0 THEN -1 ELSE 1
           nn == (s * n) \div g
           dd == (s * d) \div g
       IN IF dd <= Prec THEN <<nn, dd>>
          ELSE LET q == nn \div dd
                   r == nn - q * dd
                   m == q * Prec + (2 * r * Prec + dd) \div (2 * dd)
                   h == GCD(Abs(m), Prec)
               IN <<m \div h, Prec \div h>>

RInt(n) == <<n, 1>>

\* least common multiple of two positive denominators
LCM(a, b) == (a \div GCD(a, b)) * b

RAdd(a, b) ==
  IF IsNaN(a) \/ IsNaN(b) THEN NaN
  ELSE LET l == LCM(a[2], b[2])
       IN Rat(a[1] * (l \div a[2]) + b[1] * (l \div b[2]), l)

RNeg(a) == <<-a[1], a[2]>>

RSub(a, b) == RAdd(a, RNeg(b))

RMul(a, b) ==
  IF IsNaN(a) \/ IsNaN(b) THEN NaN
  ELSE LET g == GCD(Abs(a[1]), b[2])
           h == GCD(Abs(b[1]), a[2])
       IN Rat((a[1] \div g) * (b[1] \div h), (a[2] \div h) * (b[2] \div g))

\* float division; the only zero divisor the program meets is 0/0 (= NaN)
RDiv(a, b) ==
  IF IsNaN(a) \/ IsNaN(b) \/ b[1] = 0 THEN NaN
  ELSE RMul(a, IF b[1] < 0 THEN <<-b[2], -b[1]>> ELSE <<b[2], b[1]>>)

RAbs(a) == <<Abs(a[1]), a[2]>>

\* comparisons are false as soon as one side is NaN
RLt(a, b) ==
  /\ ~IsNaN(a)
  /\ ~IsNaN(b)
  /\ LET l == LCM(a[2], b[2]) IN a[1] * (l \div a[2]) < b[1] * (l \div b[2])
RGt(a, b) == RLt(b, a)
RLe(a, b) == ~IsNaN(a) /\ ~IsNaN(b) /\ ~RLt(b, a)

RECURSIVE RSum(_, _)
RSum(m, S) ==
  IF S = {} THEN RInt(0)
  ELSE LET e == CHOOSE e \in S : TRUE
       IN RAdd(m[e], RSum(m, S \ {e}))

\* ndarray.mean() over the entries of S
MeanOver(m, S) == RDiv(RSum(m, S), RInt(Cardinality(S)))
Mean(m) == MeanOver(m, Idx)

RECURSIVE RMaxOver(_, _)
RMaxOver(m, S) ==
  LET e == CHOOSE e \in S : TRUE
  IN IF S = {e} THEN m[e]
     ELSE LET r == RMaxOver(m, S \ {e})
          IN IF RGt(m[e], r) THEN m[e] ELSE r

Zero == [ij \in Idx |-> RInt(0)]
HasNaN(m) == \E ij \in Idx : IsNaN(m[ij])

\* np.isclose(a, b, atol=atol): |a - b| <= atol + rtol * |b|, rtol = 1e-5,
\* decided exactly on the common denominator l of a and b
RTolInv == 100000
isclose(a, b, atol) ==
  IF IsNaN(a) \/ IsNaN(b) \/ IsNaN(atol) THEN FALSE
  ELSE LET l == LCM(a[2], b[2])
           bb == Abs(b[1]) * (l \div b[2])
           diff == Abs(a[1] * (l \div a[2]) - b[1] * (l \div b[2]))
           t == atol[1] * l
           carry == IF (t % atol[2]) * RTolInv + (bb % RTolInv) * atol[2]
                       >= atol[2] * RTolInv
                    THEN 1 ELSE 0
       IN diff <= (t \div atol[2]) + (bb \div RTolInv) + carry

\* --------------------------------------------------------------- lra
\* PCA centers every column before the decomposition.
Centered(x) ==
  [ij \in Idx |->
     RDiv(RSub(x[ij], x[<<3 - ij[1], ij[2]>>]), RInt(2))]

\* The centered matrix of a two-row input has rank <= 1: its first singular
\* triple reconstructs it and every further singular value is 0, so the
\* truncated sum u[:, :rank] d[:rank] vt[:rank] is the centered matrix for
\* rank >= 1 and the empty sum for rank = 0.
lra(x, rank) == IF rank >= 1 THEN Centered(x) ELSE Zero

\* -------------------------------------------------------------- wlra
\* w = np.array(w, dtype='float'); w /= w.max()
Normalize(w) == LET mx == RMaxOver(w, Idx) IN [ij \in Idx |-> RDiv(w[ij], mx)]

\* (w * np.square(x - z)).mean()
WeightedLoss(w, x, z) ==
  Mean([ij \in Idx |->
          RMul(w[ij], RMul(RSub(x[ij], z[ij]), RSub(x[ij], z[ij])))])

\* the surrogate with the complement weight dropped: w * x + z
SurrogateNoComplement(w, x, z) ==
  [ij \in Idx |-> RAdd(RMul(w[ij], x[ij]), z[ij])]

\* w * x + (1 - w) * z
Surrogate(w, x, z) ==
  [ij \in Idx |->
     RAdd(RMul(w[ij], x[ij]), RMul(RSub(RInt(1), w[ij]), z[ij]))]

\* the monotonicity guard left out
ObjectiveIncreasedNever(upd, o) == FALSE

\* line 75
ObjectiveIncreased(upd, o) == RGt(upd, o)

\* the tolerance check always passing
WlraConvergedAlways(upd, o, tol) == TRUE

\* line 77
WlraConverged(upd, o, tol) == isclose(upd, o, tol)

\* ---------------------------------------------------------- pois_llik
\* round(e^k) for k = 1, 2, ..., and the denominators of e^-k ~ 1 / round(e^k)
ExpTable == <<3, 7, 20, 55, 148>>
ExpNegTable == <<3, 7, 20>>

\* the integer nearest to a rational
Round(a) == (2 * a[1] + a[2]) \div (2 * a[2])

\* np.exp, evaluated at the nearest integer; beyond the tables it keeps the
\* value at their ends
Exp(a) ==
  IF IsNaN(a) THEN NaN
  ELSE LET r == Round(a)
       IN IF r = 0 THEN RInt(1)
          ELSE IF r > 0
            THEN <<ExpTable[IF r > Len(ExpTable) THEN Len(ExpTable) ELSE r], 1>>
            ELSE <<1, ExpNegTable[IF -r > Len(ExpNegTable)
                                  THEN Len(ExpNegTable) ELSE -r]>>

\* round(ln(n!)) for n = 0, 1, ... : sp.gammaln(n + 1)
LnFactTable == <<0, 0, 1, 2, 3, 5, 7>>
GammaLn1(n) == RInt(LnFactTable[n + 1])

\* y * eta - np.exp(eta) - sp.gammaln(y + 1), entry by entry
pois_llik(y, e) ==
  [ij \in Idx |->
     RSub(RSub(RMul(y[ij], e[ij]), Exp(e[ij])), GammaLn1(y[ij][1]))]

\* ----------------------------------------------------------- pois_lra
\* x.mean() and pois_llik(x, eta).mean() of a masked array skip its masked
\* entries
MaskedMean(m, msk) == MeanOver(m, Idx \ msk)

\* lam = np.exp(eta)
PoisLam(e) == [ij \in Idx |-> Exp(e[ij])]

\* the weights with line 134 left out
PoisWeightsUnmasked(lam, msk) == lam

\* w = lam; if np.ma.is_masked(x): w *= (~x.mask).astype(int)
PoisWeights(lam, msk) ==
  IF msk = {} THEN lam
  ELSE [ij \in Idx |-> RMul(lam[ij], RInt(IF ij \in msk THEN 0 ELSE 1))]

\* target = eta + x / lam - 1; if np.ma.is_masked(x): target.filled(0)
PoisTarget(e, y, lam, msk) ==
  [ij \in Idx |->
     IF ij \in msk THEN RInt(0)
     ELSE RSub(RAdd(e[ij], RDiv(y[ij], lam[ij])), RInt(1))]

\* line 143
PoisDecreased(upd, o) == RLt(upd, o)

\* line 145
PoisConverged(upd, o, tol) == isclose(upd, o, tol)

\* lines 118-121
PoisInitEta(hasInit, init0, y, msk) ==
  IF hasInit THEN init0 ELSE [ij \in Idx |-> MaskedMean(y, msk)]

VARIABLES
  entry,      \* the function called: "wlra" or "pois_lra"
  projector,  \* "lra", or "mock" when wlra.lra is replaced by a test double
  w_in,       \* wlra's argument w as passed (a scalar broadcast)
  x, w, rank, max_iters, atol,   \* wlra's arguments (w after normalization)
  z, obj, i, z1, update,         \* wlra's locals; i counts the projector calls
  wpc,        \* "idle", "loop" or "done"
  wstatus,    \* "none", "returned", "increased", "failed", "value_error"
  wret,       \* the matrix wlra returned
  px, mask,   \* pois_lra's argument x: its data and its missing-data mask
  has_init, init, max_outer_iters,   \* pois_lra's arguments
  eta, pobj, oi, eta1, pupdate,  \* pois_lra's locals eta, obj, i, eta1, update
  ppc,        \* "idle", "outer", "inner" or "done"
  pstatus,    \* "none", "converged" (line 146), "exhausted" (line 150), "raised"
  pret        \* the matrix pois_lra returned

wvars == <<projector, w_in, x, w, rank, max_iters, atol, z, obj, i, z1, update,
           wpc, wstatus, wret>>
pvars == <<px, mask, has_init, init, max_outer_iters, eta, pobj, oi, eta1,
           pupdate, ppc, pstatus, pret>>
vars == <<entry, wvars, pvars>>

\* what a mocked projector may return
MockResults == [Idx -> {RInt(0), RInt(1)}]

\* lines 55-69: the frame of wlra when its loop starts
WlraEnter(proj, xx, ww, rk, mi, tol) ==
  /\ projector' = proj
  /\ x' = xx
  /\ w_in' = ww
  /\ w' = Normalize(ww)
  /\ rank' = rk
  /\ max_iters' = mi
  /\ atol' = tol
  /\ z' = Zero
  /\ obj' = WeightedLoss(Normalize(ww), xx, Zero)
  /\ i' = 0
  /\ z1' = Zero
  /\ update' = RInt(0)
  /\ wpc' = "loop"
  /\ wstatus' = "none"
  /\ wret' = Zero

\* lines 72-81: the rest of one iteration once the projector returned zz
WlraBody(zz) ==
  LET upd == WeightedLoss(w, x, zz)
  IN /\ z1' = zz
     /\ update' = upd
     /\ i' = i + 1
     /\ IF ObjectiveIncreased(upd, obj)
          THEN /\ wstatus' = "increased"
               /\ wpc' = "done"
               /\ UNCHANGED <<z, obj, wret>>
          ELSE IF WlraConverged(upd, obj, atol)
            THEN /\ wstatus' = "returned"
                 /\ wret' = zz
                 /\ wpc' = "done"
                 /\ UNCHANGED <<z, obj>>
            ELSE /\ z' = zz
                 /\ obj' = upd
                 /\ UNCHANGED <<wstatus, wpc, wret>>
     /\ UNCHANGED <<entry, projector, w_in, x, w, rank, max_iters, atol, pvars>>

\* one iteration with the real projector; the decomposition rejects NaN input
WlraIterate ==
  /\ wpc = "loop"
  /\ i < max_iters
  /\ projector = "lra"
  /\ LET s == Surrogate(w, x, z)
     IN IF HasNaN(s)
          THEN /\ wstatus' = "value_error"
               /\ wpc' = "done"
               /\ i' = i + 1
               /\ UNCHANGED <<entry, projector, w_in, x, w, rank, max_iters,
                              atol, z, obj, z1, update, wret, pvars>>
          ELSE WlraBody(lra(s, rank))

\* one iteration with a mocked projector
WlraIterateMock ==
  /\ wpc = "loop"
  /\ i < max_iters
  /\ projector = "mock"
  /\ \E zz \in MockResults : WlraBody(zz)

\* line 82
WlraExhaust ==
  /\ wpc = "loop"
  /\ i = max_iters
  /\ wstatus' = "failed"
  /\ wpc' = "done"
  /\ UNCHANGED <<entry, projector, w_in, x, w, rank, max_iters, atol,
                 z, obj, i, z1, update, wret, pvars>>

\* lines 125-139, and wlra's lines 55-69: linearize around eta and call wlra
PoisLinearize ==
  /\ ppc = "outer"
  /\ oi < max_outer_iters
  /\ LET lam == PoisLam(eta)
     IN WlraEnter("lra", PoisTarget(eta, px, lam, mask), PoisWeights(lam, mask),
                  rank, max_iters, atol)
  /\ ppc' = "inner"
  /\ UNCHANGED <<entry, px, mask, has_init, init, max_outer_iters, eta, pobj,
                 oi, eta1, pupdate, pstatus, pret>>

\* line 139: an error of wlra leaves pois_lra as it is
PoisWlraRaised ==
  /\ ppc = "inner"
  /\ wpc = "done"
  /\ wstatus # "returned"
  /\ pstatus' = "raised"
  /\ ppc' = "done"
  /\ UNCHANGED <<entry, wvars, px, mask, has_init, init, max_outer_iters, eta,
                 pobj, oi, eta1, pupdate, pret>>

\* lines 139-149: wlra returned eta1
PoisUpdate ==
  /\ ppc = "inner"
  /\ wpc = "done"
  /\ wstatus = "returned"
  /\ LET upd == MaskedMean(pois_llik(px, wret), mask)
     IN /\ eta1' = wret
        /\ pupdate' = upd
        /\ oi' = oi + 1
        /\ IF PoisDecreased(upd, pobj)
             THEN /\ ppc' = "outer"
                  /\ UNCHANGED <<eta, pobj, pstatus, pret>>
             ELSE IF PoisConverged(upd, pobj, atol)
               THEN /\ pstatus' = "converged"
                    /\ pret' = wret
                    /\ ppc' = "done"
                    /\ UNCHANGED <<eta, pobj>>
               ELSE /\ eta' = wret
                    /\ pobj' = upd
                    /\ ppc' = "outer"
                    /\ UNCHANGED <<pstatus, pret>>
  /\ UNCHANGED <<entry, wvars, px, mask, has_init, init, max_outer_iters>>

\* line 150
PoisExhaust ==
  /\ ppc = "outer"
  /\ oi = max_outer_iters
  /\ pstatus' = "exhausted"
  /\ pret' = eta
  /\ ppc' = "done"
  /\ UNCHANGED <<entry, wvars, px, mask, has_init, init, max_outer_iters, eta,
                 pobj, oi, eta1, pupdate>>

\* ------------------------------------------------------------ inputs
Matrices(V) == [Idx -> {RInt(v) : v \in V}]
Ranks == 0..Cardinality(Cols)
ATols == {<<1, 1000>>, <<100, 1>>}
\* a scalar weight broadcasts to every entry
WeightInputs ==
  Matrices(0..MaxW) \cup {[ij \in Idx |-> RInt(v)] : v \in 1..MaxW}

\* warm starts a caller may pass as init
InitEtas == {[ij \in Idx |-> RInt(v)] : v \in {-2, 0, 101}}
\* missing-data masks; at least one entry is observed
Masks == (SUBSET Idx) \ {Idx}

\* wlra(x, w, rank, max_iters, atol) after lines 55-69
InitWlra ==
  /\ entry = "wlra"
  /\ projector \in {"lra", "mock"}
  /\ x \in Matrices(0..MaxX)
  /\ rank \in Ranks
  /\ max_iters \in 0..MaxIters
  /\ atol \in ATols
  /\ w_in \in WeightInputs
  /\ w = Normalize(w_in)
  /\ obj = WeightedLoss(w, x, Zero)
  /\ px = Zero /\ mask = {} /\ has_init = FALSE /\ init = Zero
  /\ max_outer_iters = 0 /\ eta = Zero /\ pobj = RInt(0) /\ oi = 0
  /\ eta1 = Zero /\ pupdate = RInt(0) /\ ppc = "idle" /\ pstatus = "none"
  /\ pret = Zero
  /\ z = Zero
  /\ i = 0
  /\ z1 = Zero
  /\ update = RInt(0)
  /\ wpc = "loop"
  /\ wstatus = "none"
  /\ wret = Zero

\* pois_lra(x, rank, init, max_outer_iters, max_iters, atol) after lines 117-122
InitPois ==
  /\ entry = "pois_lra"
  /\ px \in Matrices(0..MaxX)
  /\ mask \in Masks
  /\ has_init \in BOOLEAN
  /\ init \in IF has_init THEN InitEtas ELSE {Zero}
  /\ rank \in Ranks
  /\ max_outer_iters \in 0..MaxOuterIters
  /\ max_iters \in 0..MaxIters
  /\ atol \in ATols
  /\ eta = PoisInitEta(has_init, init, px, mask)
  /\ pobj = MaskedMean(pois_llik(px, eta), mask)
  /\ oi = 0 /\ eta1 = Zero /\ pupdate = RInt(0)
  /\ ppc = "outer" /\ pstatus = "none" /\ pret = Zero
  /\ projector = "lra" /\ w_in = Zero /\ x = Zero /\ w = Zero /\ z = Zero
  /\ obj = RInt(0) /\ i = 0 /\ z1 = Zero /\ update = RInt(0)
  /\ wpc = "idle" /\ wstatus = "none" /\ wret = Zero

Init == InitWlra \/ InitPois

Next ==
  \/ WlraIterate
  \/ WlraIterateMock
  \/ WlraExhaust
  \/ PoisLinearize
  \/ PoisWlraRaised
  \/ PoisUpdate
  \/ PoisExhaust

Spec == Init /\ [][Next]_vars

\* ================================================================ claims
Ones == [ij \in Idx |-> RInt(1)]

\* C1: within a call of wlra the objective held by the loop never goes up;
\* an iteration whose update is greater than the current objective ends the
\* call with 'objective increased', leaving z, obj and the result untouched,
\* and after that error the frame of wlra does not change any more.
C1_MonotoneOrFatal ==
  [][ /\ (wpc = "loop" /\ i' = i + 1) =>
           /\ ~RGt(obj', obj)
           /\ (wstatus' # "value_error" /\ RGt(update', obj)) =>
                 /\ wstatus' = "increased"
                 /\ wpc' = "done"
                 /\ obj' = obj /\ z' = z /\ wret' = wret
      /\ (wstatus = "increased" => UNCHANGED wvars) ]_vars

\* an increase met after an accepted update
C1_Witness ==
  /\ wstatus = "increased"
  /\ i = 2
  /\ RGt(update, obj)
  /\ RLt(obj, WeightedLoss(w, x, Zero))

C3_UnitWeights ==
  (/\ entry = "wlra"
   /\ projector = "lra"
   /\ w_in = Ones
   /\ rank >= 1
   /\ max_iters >= 2)
  => /\ wpc = "done" => (wstatus = "returned" /\ wret = lra(x, rank))
     /\ wpc = "loop" => i < 2

\* unit weights, a second iteration was needed, and the result is not zero
C3_Witness ==
  /\ entry = "wlra"
  /\ projector = "lra"
  /\ w_in = Ones
  /\ rank >= 1
  /\ wstatus = "returned"
  /\ i = 2
  /\ wret = lra(x, rank)
  /\ wret # Zero

\* C4 (as claimed): with the real projector, an all-zero x, any weights,
\* rank >= 1 and at least one iteration allowed, wlra returns the zero matrix.
C4_ZeroInput ==
  (/\ entry = "wlra"
   /\ projector = "lra"
   /\ x = Zero
   /\ rank >= 1
   /\ max_iters >= 1
   /\ wpc = "done")
  => (wstatus = "returned" /\ wret = Zero /\ i = 1)

\* C5 (as claimed): when the outer loop runs out of iterations pois_lra
\* returns eta, and that is the estimate eta1 of the final outer iteration.
C5_ExhaustReturnsLast ==
  pstatus = "exhausted" =>
    /\ pret = eta
    /\ max_outer_iters >= 1 => pret = eta1

\* C6: whenever pois_lra has called wlra on a masked x, the weights and the
\* target it passed are 0 at every masked entry and exp(eta) and
\* eta + x / exp(eta) - 1 at every other entry, so that no value stored under
\* the mask appears in them.
C6_MaskedInputs ==
  (ppc = "inner" /\ mask # {}) =>
    \A ij \in Idx :
      IF ij \in mask
        THEN w_in[ij] = RInt(0) /\ x[ij] = RInt(0) /\ w[ij] = RInt(0)
        ELSE /\ w_in[ij] = Exp(eta[ij])
             /\ x[ij] = RSub(RAdd(eta[ij], RDiv(px[ij], Exp(eta[ij]))), RInt(1))

\* a later outer iteration on an x with a non-zero value under its mask
C6_Witness ==
  /\ ppc = "inner"
  /\ oi >= 1
  /\ eta # PoisInitEta(has_init, init, px, mask)
  /\ \E ij \in mask : px[ij] # RInt(0) /\ w_in[ij] = RInt(0)
  /\ \E ij \in Idx \ mask : w_in[ij] # RInt(0)

\* C7 (as claimed): an outer iteration whose update fails the tolerance
\* check, a decrease included, makes eta1 the new eta and update the new
\* objective, and the loop goes on.
C7_AcceptWhenNotClose ==
  [][ (/\ ppc = "inner"
       /\ oi' = oi + 1
       /\ ~isclose(pupdate', pobj, atol))
      => (eta' = eta1' /\ pobj' = pupdate' /\ ppc' = "outer"
          /\ pstatus' = "none") ]_vars

\* C8 (as claimed): an outer iteration whose update passes the tolerance
\* check, from above or from below, returns its eta1 and ends the call.
C8_ReturnWhenClose ==
  [][ (/\ ppc = "inner"
       /\ oi' = oi + 1
       /\ isclose(pupdate', pobj, atol))
      => (pstatus' = "converged" /\ pret' = eta1' /\ ppc' = "done") ]_vars

\* ln, rounded to the nearest integer, of a mean between e^-1.5 and e^1.5
Log(m) ==
  IF RLt(m, <<3, 5>>) THEN RInt(-1)
  ELSE IF RLt(m, <<33, 20>>) THEN RInt(0) ELSE RInt(1)

\* C9 (as claimed): before the first outer iteration ends, eta is the init
\* the caller gave, or else the constant log(mean(x)); the objective and the
\* first weights and target are computed from it.
C9_InitialEta ==
  (entry = "pois_lra" /\ oi = 0 /\ ppc \in {"outer", "inner"}) =>
    /\ has_init => eta = init
    /\ (~has_init /\ RGt(MaskedMean(px, mask), <<2, 9>>)
                  /\ RLt(MaskedMean(px, mask), <<9, 2>>))
         => eta = [ij \in Idx |-> Log(MaskedMean(px, mask))]
    /\ pobj = MaskedMean(pois_llik(px, eta), mask)
    /\ ppc = "inner" =>
         /\ w_in = PoisWeights(PoisLam(eta), mask)
         /\ x = PoisTarget(eta, px, PoisLam(eta), mask)

\* exp with the overflow guard: eta itself above 100
SafeExp(a) == IF RGt(a, RInt(100)) THEN a ELSE Exp(a)

\* C10 (as claimed): the rates pois_lra passes as weights and the
\* likelihood it starts from use eta itself in place of exp(eta) wherever
\* eta > 100.
C10_SafeExp ==
  /\ ppc = "inner" =>
       \A ij \in Idx \ mask : w_in[ij] = SafeExp(eta[ij])
  /\ (ppc = "outer" /\ oi = 0) =>
       pobj = MaskedMean([ij \in Idx |->
                RSub(RSub(RMul(px[ij], eta[ij]), SafeExp(eta[ij])),
                     GammaLn1(px[ij][1]))], mask)

====
